---- MODULE Spec2Model ----
(***************************************************************************)
(* Model of the Neural-Home request router (src/orchestrator/main.py):     *)
(* the safe state loader, the health tracker, the router and the provider  *)
(* waterfall of POST /v1/chat/completions, with the key-value store, the   *)
(* state files and the upstream providers as environment.                  *)
(***************************************************************************)
EXTENDS Integers, Sequences, FiniteSets, TLC

(***************************************************************************)
(* Bounds of the model.                                                    *)
(***************************************************************************)
\* Depth at which the interpreter ends the recursion of load_state_safe with
\* a RecursionError (1000 frames in CPython; kept small here).
RecursionLimit == 2
\* Number of chat-completions requests served in one behaviour.
MaxRequests == 2

(***************************************************************************)
(* Program constants.                                                      *)
(***************************************************************************)
\* main.py:38  time.time() - LAST_STATE_LOAD < 60
ReloadInterval == 60
\* main.py:136 r.setex(f"cooldown:{p_id}", 60, "BLOCKED")
CooldownTTL == 60
\* main.py:54  time.sleep(1)
RetrySleep == 1

None == "None"

Min(a, b) == IF a < b THEN a ELSE b
Max(a, b) == IF a > b THEN a ELSE b

(***************************************************************************)
(* Provider descriptors and state documents.                               *)
(***************************************************************************)
\* The ids of DEFAULT_PROVIDERS, the only ids the router names.
Ids == {"ollama", "qwen_cloud", "gemini-flash", "groq"}

Descriptor(id, type) == [id |-> id, type |-> type, key |-> None]

\* infrastructure_scan.py DEFAULT_PROVIDERS, in insertion order.
DEFAULT_PROVIDERS ==
    << Descriptor("ollama", "openai"), Descriptor("qwen_cloud", "openai"),
       Descriptor("gemini-flash", "google"), Descriptor("groq", "openai") >>

\* The contents a state file can have: two well-formed documents, one without
\* api_providers, one whose "groq" entry is not an object, and bytes that are
\* not JSON.
GoodDocs == {"DOC_DEFAULT", "DOC_SMALL"}
Docs == GoodDocs \cup {"DOC_NOKEY", "DOC_BADENTRY", "DOC_BADJSON"}
ENOENT == "ENOENT"

\* json.loads(content): does it raise?
JsonLoads(doc) == doc # "DOC_BADJSON"
\* 'api_providers' in state
HasApiProviders(doc) == doc \in GoodDocs \cup {"DOC_BADENTRY"}
\* state['api_providers'] of a well-formed document
ApiProviders(doc) ==
    CASE doc = "DOC_DEFAULT" -> DEFAULT_PROVIDERS
      [] doc = "DOC_SMALL" ->
            << Descriptor("gemini-flash", "google"), Descriptor("ollama", "openai") >>
      [] OTHER -> << >>

\* Lines 64-65: the keys from the environment are written into the entries.
EnrichEntry(d) ==
    CASE d.id = "qwen_cloud" -> [d EXCEPT !.key = "DASHSCOPE_API_KEY"]
      [] d.id = "groq" -> [d EXCEPT !.key = "GROQ_API_KEY"]
      [] OTHER -> d
Enrich(provs) == [i \in 1..Len(provs) |-> EnrichEntry(provs[i])]
\* new_providers["groq"]["key"] = ... raises when the entry is not an object.
EnrichRaises(doc) == doc = "DOC_BADENTRY"

(***************************************************************************)
(* Text of the checksum file and SHA-256.  A text is its body and whether  *)
(* white space surrounds it; a digest is modelled as an injective tag.     *)
(***************************************************************************)
Sha256(doc) == << "sha256", doc >>
Text(body) == [body |-> body, ws |-> FALSE]
\* hashlib.sha256(content.encode('utf-8')).hexdigest()
HexDigest(doc) == Text(Sha256(doc))
\* str.strip()
Strip(t) == [t EXCEPT !.ws = FALSE]
ChecksumTexts ==
    [body : {Sha256(d) : d \in Docs} \cup {<< "junk" >>}, ws : BOOLEAN]
\* No checksum file on disk, and no text read yet.
NoChecksumFile == Text(<< ENOENT >>)
NoText == Text(<< >>)

\* Line 52, negated: real_checksum == expected_checksum
ChecksumMatches(content, expected) == HexDigest(content) = expected
\* Mutant: the checksum text is compared as read, without strip().
ReadExpected_NoStrip(raw) == raw
\* Line 44: expected_checksum = f.read().strip()
ReadExpected(raw) == Strip(raw)

VARIABLES
    state_file,       \* infrastructure/state.json: a document, or ENOENT
    checksum_file,    \* infrastructure/state.json.checksum: a text
    PROVIDERS,        \* the in-process registry, in dict order
    loadAge,          \* time.time() - LAST_STATE_LOAD, capped at ReloadInterval
    ld,               \* the running load_state_safe() call
    gpu_status,       \* KVS key gpu_status
    cooldown,         \* KVS keys cooldown:<id>: the remaining TTL, 0 when absent
    stats,            \* KVS keys stats:<id>:requests
    current_mode,     \* main.py:120
    manual_target_id, \* main.py:121
    req,              \* the chat_proxy call in progress, with its history
    served,           \* number of requests received so far
    bucket,           \* KVS keys limiter:global_user:<class> and ...:ts
    callers,          \* other clients of the same bucket, and their calls
    hist,             \* what the bucket started with, gave out, and the time
    kvs_up,           \* can the limiter reach the KVS?
    sse,              \* a streaming response: upstream chunks, frames sent
    readAge,          \* seconds since state.json was last read, capped
    markAge,          \* seconds since set_cooldown last ran for an id, capped
    failing,          \* requests served in parallel whose upstream call failed
    gpu_gauge,        \* the Prometheus gauge neural_home_gpu_status
    scrape,           \* the GET /metrics request in progress
    lock_pc,          \* where each user of acquire_lock() stands
    lock_holders,     \* the open file descriptions holding flock on LOCK_FILE
    temp_file,        \* infrastructure/state.json.tmp: a document, or ENOENT
    scans,            \* the running infrastructure_scan.py processes
    quota,            \* KVS keys quota:<provider>:<day>: value and TTL
    clock,            \* datetime.now(): the day and the hour
    pve               \* the last ProxmoxManager call and the API calls it made

diskVars == << state_file, checksum_file >>
loaderVars == << PROVIDERS, loadAge, ld >>
kvsVars == << gpu_status, cooldown, stats >>
cfgVars == << current_mode, manual_target_id >>
reqVars == << req, served >>
limVars == << bucket, callers, hist, kvs_up >>
ageVars == << readAge, markAge >>
metricVars == << gpu_gauge, scrape >>
lockVars == << lock_pc, lock_holders >>
toolVars == << temp_file, scans, quota, clock, pve >>
vars == << diskVars, loaderVars, kvsVars, cfgVars, reqVars, limVars, sse,
           ageVars, metricVars, lockVars, failing, toolVars >>

IdleLoad == [pc |-> "idle", raw |-> NoText, content |-> None, depth |-> 0]

(***************************************************************************)
(* load_state_safe (main.py:30-75)                                         *)
(***************************************************************************)
\* Line 38: the debounce.  An empty dict is falsy.
Debounced == loadAge < ReloadInterval /\ PROVIDERS # << >>

\* A caller (line 78 at start-up, line 202 in a request) enters the function.
EnterLoad == [IdleLoad EXCEPT !.pc = "entry"]

\* d seconds pass: every TTL in the KVS runs down, LAST_STATE_LOAD ages.
Elapse(d) ==
    /\ loadAge' = Min(ReloadInterval, loadAge + d)
    /\ cooldown' = [id \in Ids |-> Max(0, cooldown[id] - d)]
    /\ readAge' = Min(ReloadInterval, readAge + d)
    /\ markAge' = [id \in Ids |-> Min(CooldownTTL, markAge[id] + d)]

LoadEntry ==
    /\ ld.pc = "entry"
    /\ ld' = IF Debounced THEN IdleLoad ELSE [ld EXCEPT !.pc = "read_ck"]
    /\ UNCHANGED << diskVars, PROVIDERS, loadAge, kvsVars, cfgVars, toolVars, ageVars, metricVars, lockVars, failing, limVars, sse, reqVars >>

\* Lines 43-44.  A missing file raises; line 72 swallows it.
ReadChecksum ==
    /\ ld.pc = "read_ck"
    /\ ld' = IF checksum_file = NoChecksumFile
                THEN IdleLoad
                ELSE [ld EXCEPT !.pc = "read_st", !.raw = checksum_file]
    /\ UNCHANGED << diskVars, PROVIDERS, loadAge, kvsVars, cfgVars, toolVars, ageVars, metricVars, lockVars, failing, limVars, sse, reqVars >>

\* Lines 47-48.
ReadState ==
    /\ ld.pc = "read_st"
    /\ ld' = IF state_file = ENOENT
                THEN IdleLoad
                ELSE [ld EXCEPT !.pc = "validate", !.content = state_file]
    /\ readAge' = IF state_file = ENOENT THEN readAge ELSE 0
    /\ UNCHANGED << diskVars, PROVIDERS, loadAge, kvsVars, cfgVars, toolVars, markAge, metricVars, lockVars, failing, limVars, sse, reqVars >>

\* Mutant: the registry is assigned whatever the document is.
Installs_Unchecked(doc) == TRUE
\* Lines 57-70 on a matching pair: does the attempt reach the assignment of
\* line 68?  Not when json.loads or the enrichment raises, nor when the
\* document has no api_providers.
Installs(doc) == JsonLoads(doc) /\ HasApiProviders(doc) /\ ~EnrichRaises(doc)

\* Mutant: a mismatch ends the call without another read.
Retry_GiveUp(depth) == IdleLoad
\* Line 55: return load_state_safe().  The call made at depth frames of
\* recursion enters the function again, unless the interpreter's recursion
\* limit is reached.
Retry(depth) ==
    IF depth + 1 > RecursionLimit
       THEN IdleLoad
       ELSE [IdleLoad EXCEPT !.pc = "entry", !.depth = depth + 1]

\* Lines 51-75.  On a mismatch the function sleeps and calls itself; the
\* innermost call that would exceed the recursion limit raises
\* RecursionError inside the try block, which line 72 swallows.
Validate ==
    /\ ld.pc = "validate"
    /\ LET match == ChecksumMatches(ld.content, ReadExpected(ld.raw))
           inst == match /\ Installs(ld.content)
       IN /\ PROVIDERS' = IF inst THEN Enrich(ApiProviders(ld.content)) ELSE PROVIDERS
          /\ IF match
                THEN /\ loadAge' = IF inst THEN 0 ELSE loadAge
                     /\ UNCHANGED << cooldown, ageVars >>
                ELSE Elapse(RetrySleep)
          /\ ld' = IF match THEN IdleLoad ELSE Retry(ld.depth)
    /\ UNCHANGED << diskVars, gpu_status, stats, cfgVars, toolVars, metricVars, lockVars, failing, limVars, sse, reqVars >>

(***************************************************************************)
(* Environment of the loader: the writer of the state files, the clock,    *)
(* and the callers of load_state_safe.                                     *)
(***************************************************************************)
WriteState(doc) ==
    /\ state_file' = doc
    /\ state_file # doc
    /\ UNCHANGED << checksum_file, loaderVars, kvsVars, cfgVars, toolVars, ageVars, metricVars, lockVars, failing, limVars, sse, reqVars >>

WriteChecksum(text) ==
    /\ checksum_file' = text
    /\ checksum_file # text
    /\ UNCHANGED << state_file, loaderVars, kvsVars, cfgVars, toolVars, ageVars, metricVars, lockVars, failing, limVars, sse, reqVars >>

\* A minute passes.
Tick ==
    /\ loadAge < ReloadInterval \/ \E id \in Ids : cooldown[id] > 0
    /\ Elapse(ReloadInterval)
    /\ UNCHANGED << diskVars, PROVIDERS, ld, gpu_status, stats, cfgVars, toolVars, metricVars, lockVars, failing, limVars, sse, reqVars >>

\* A request reaches line 202 (the rest of the request is left out of the
\* loader's specification).
LoadCall ==
    /\ ld.pc = "idle"
    /\ ld' = EnterLoad
    /\ UNCHANGED << diskVars, PROVIDERS, loadAge, kvsVars, cfgVars, toolVars, ageVars, metricVars, lockVars, failing, limVars, sse, reqVars >>

(***************************************************************************)
(* Helpers on lists                                                        *)
(***************************************************************************)
Range(s) == {s[i] : i \in 1..Len(s)}
Contains(s, x) == \E i \in 1..Len(s) : s[i] = x
\* list.remove(x): the first occurrence goes.
RECURSIVE RemoveFirst(_, _)
RemoveFirst(s, x) ==
    IF s = << >> THEN << >>
    ELSE IF Head(s) = x THEN Tail(s)
    ELSE << Head(s) >> \o RemoveFirst(Tail(s), x)
\* [p for p in s if p != x]
RECURSIVE Without(_, _)
Without(s, x) ==
    IF s = << >> THEN << >>
    ELSE IF Head(s) = x THEN Without(Tail(s), x)
    ELSE << Head(s) >> \o Without(Tail(s), x)
\* PROVIDERS.get(p_id): the descriptor, or None
NoDescriptor == [id |-> None, type |-> None, key |-> None]
RECURSIVE Lookup(_, _)
Lookup(provs, p_id) ==
    IF provs = << >> THEN NoDescriptor
    ELSE IF Head(provs).id = p_id THEN Head(provs)
    ELSE Lookup(Tail(provs), p_id)

(***************************************************************************)
(* Health tracker and router (main.py:129-177)                             *)
(***************************************************************************)
\* Mutant: the key that is looked up is never the one set_cooldown writes.
Exists_WrongKey(cd, id) == FALSE
\* r.exists(f"cooldown:{id}")
Exists(cd, id) == cd[id] > 0

\* The comprehension of line 130 over the registry provs and the keys cd.
RECURSIVE SaneOf(_, _)
SaneOf(provs, cd) ==
    IF provs = << >> THEN << >>
    ELSE IF ~Exists(cd, Head(provs).id)
            THEN << Head(provs).id >> \o SaneOf(Tail(provs), cd)
            ELSE SaneOf(Tail(provs), cd)

\* Mutant: lines 131-132 are missing.
get_sane_providers_KeepsOllama(provs, cd, gpu_ready) == SaneOf(provs, cd)
\* get_sane_providers, lines 129-133
get_sane_providers(provs, cd, gpu_ready) ==
    LET sane == SaneOf(provs, cd)
    IN IF ~gpu_ready /\ Contains(sane, "ollama")
          THEN RemoveFirst(sane, "ollama")
          ELSE sane

\* Mutant: line 169 does not look at gpu_ready.
decide_routing_GpuIgnored(category, gpu_ready, sane_list) ==
    IF category = "CODING"
       THEN IF Contains(sane_list, "ollama") THEN "ollama"
            ELSE IF Contains(sane_list, "qwen_cloud") THEN "qwen_cloud"
            ELSE sane_list[1]
       ELSE IF Contains(sane_list, "groq") THEN "groq"
            ELSE IF Contains(sane_list, "gemini-flash") THEN "gemini-flash"
            ELSE sane_list[1]
\* Mutant: lines 169-176 name the preferred provider without looking for it
\* in the sane list.
decide_routing_Unchecked(category, gpu_ready, sane_list) ==
    IF category = "CODING"
       THEN IF gpu_ready THEN "ollama" ELSE "qwen_cloud"
       ELSE "groq"
\* decide_routing, lines 166-177; sane_list[0] of an empty list raises
\* IndexError, which the caller of this operator models.
decide_routing(category, gpu_ready, sane_list) ==
    IF category = "CODING"
       THEN IF gpu_ready /\ Contains(sane_list, "ollama") THEN "ollama"
            ELSE IF Contains(sane_list, "qwen_cloud") THEN "qwen_cloud"
            ELSE sane_list[1]
       ELSE IF Contains(sane_list, "groq") THEN "groq"
            ELSE IF Contains(sane_list, "gemini-flash") THEN "gemini-flash"
            ELSE sane_list[1]

\* Mutant: any stored value counts as green.
GpuOn_Truthy(status) == status # None
\* Line 209: gpu_on = (r.get("gpu_status") == "VERDE")
GpuOn(status) == status = "VERDE"

\* Lines 101, 115 and 210: 1 if ... else 0.
GaugeValue(green) == IF green THEN 1 ELSE 0

\* Mutant: the preferred id is not filtered out of the fallbacks.
Attempts_NoFilter(target_id, sane_list) == << target_id >> \o sane_list
\* Line 223: attempts = [target_id] + [p for p in sane_list if p != target_id]
Attempts(target_id, sane_list) == << target_id >> \o Without(sane_list, target_id)

\* Line 264: "429" in str(e) or "quota" in str(e).lower()
IsQuotaError(err) == err = "quota"

(***************************************************************************)
(* Rate limiter as the pipeline calls it (main.py:85, 194).  The class of  *)
(* src/orchestrator/rate_limiter.py has another signature; the decision is *)
(* the token bucket's of the specification: it fails open when the KVS     *)
(* call raises, and otherwise allows when the bucket holds the cost.       *)
(***************************************************************************)
\* Mutant: a limiter that cannot reach the KVS rejects.
check_limit_FailClosed(kvs_ok, enough) == kvs_ok /\ enough
check_limit(kvs_ok, enough) == ~kvs_ok \/ enough

\* The classes of bucket and their parameters (burst, refill per minute).
Classes == {"global", "expensive", "cheap"}
Burst(class) ==
    CASE class = "global" -> 1000
      [] class = "expensive" -> 50
      [] class = "cheap" -> 2000
RefillPerMinute(class) ==
    CASE class = "global" -> 60
      [] class = "expensive" -> 5
      [] class = "cheap" -> 120
\* Token counts are real numbers; they are held here in sixtieths of a
\* token, so that the refill of one second, refill per minute / 60 tokens,
\* is RefillPerMinute units.
Scale == 60
Capacity(class) == Burst(class) * Scale
\* Seconds after which any bucket of the class is full again.
FullAfter(class) ==
    (Capacity(class) + RefillPerMinute(class) - 1) \div RefillPerMinute(class)
\* main.py:194  cost=1
Cost == 1

\* Mutant: the refill is not capped at the burst.
Level_NoCap(stored, elapsed_seconds, class) ==
    stored + elapsed_seconds * RefillPerMinute(class)
\* level = min(burst, stored + elapsed_seconds * refill_rate)
Level(stored, elapsed_seconds, class) ==
    Min(Capacity(class), stored + elapsed_seconds * RefillPerMinute(class))
\* level >= cost
Fits(level, cost) == level >= cost * Scale
\* Mutant: an accepted call does not take its tokens.
Consume_Lost(level, cost) == level
Consume(level, cost) == level - cost * Scale

\* The two keys of a bucket: absent until the first accepted check (a fresh
\* bucket is full), then the stored level and the seconds since its
\* timestamp.  The keys' TTL of 3600 s is longer than FullAfter of every
\* class: a bucket that expired is as full as one that did not.
FreshBucket(class) == [class |-> class, present |-> FALSE, stored |-> 0, age |-> 0]
CurrentLevel(b) ==
    IF b.present THEN Level(b.stored, b.age, b.class) ELSE Capacity(b.class)
\* The scripted read-modify-write, one round trip, atomic in the KVS.
Script(b, cost) ==
    IF Fits(CurrentLevel(b), cost)
       THEN [b EXCEPT !.present = TRUE,
                      !.stored = Consume(CurrentLevel(b), cost),
                      !.age = 0]
       ELSE b

\* Lines 190-192: the class of bucket, from the requested model.
Models == {"qwen-max", "gpt-4o", "Claude-3"}
limit_type(req_model) ==
    IF req_model \in {"gpt-4o", "Claude-3"} THEN "expensive" ELSE "cheap"

(***************************************************************************)
(* chat_proxy (main.py:180-267)                                            *)
(***************************************************************************)
\* Shapes of the request body: the last message is a user message; it is
\* not; the list of messages is empty; a message has no "role".
Bodies == {"user_last", "other_last", "empty", "no_role"}
\* The roles of body["messages"], in order, for each shape.
Messages(body) ==
    CASE body = "user_last" -> << "user", "assistant", "user" >>
      [] body = "other_last" -> << "user", "assistant" >>
      [] body = "no_role" -> << "user", None >>
      [] OTHER -> << >>
\* Line 198: the last message whose role is "user" (0 when there is none).
LastUser(msgs) ==
    LET users == {i \in 1..Len(msgs) : msgs[i] = "user"}
    IN IF users = {} THEN 0 ELSE CHOOSE i \in users : \A j \in users : j <= i
\* What analyze_request returns: an object with the category it names, JSON
\* that is not an object, or the fallback of line 163.
JudgeOutputs == {"CODING", "SIMPLE", "nondict", "fallback"}
\* An upstream call succeeds, fails on quota, or fails otherwise.
Outcomes == {"ok", "quota", "generic"}

\* The handler's locals, and its history: tried lists the loop iterations
\* that found a descriptor, each with the provider id, how its upstream call
\* ended ("deferred" when the iteration made none) and how the iteration
\* ended ("returned", "caught" by line 262, or "raised" out of the handler);
\* stream_out is how the upstream call of a deferred generator ended; cooled
\* holds the ids whose cooldown key this request set; directives lists the
\* messages (by position) to whose content lang_cmd was appended.
NewReq == [pc |-> "idle", body |-> "user_last", stream |-> FALSE,
           cat |-> None, gpu_on |-> FALSE, sane_list |-> << >>,
           target_id |-> None, attempts |-> << >>, idx |-> 0,
           tried |-> << >>, stream_out |-> None, cooled |-> {},
           status |-> 0, responder |-> None, err |-> 0,
           directives |-> << >>]

\* The handler ends with an HTTPException (429, 503).
Finish(r, code) == [r EXCEPT !.pc = "done", !.status = code]
\* The handler ends with an exception nothing catches, raised at a line of
\* main.py: the framework answers HTTP 500.
Raise(r, line) == [r EXCEPT !.pc = "done", !.status = 500, !.err = line]

\* Line 182: the body arrives.  Requests are served one at a time: the
\* handler never awaits after it, and start-up has finished.
Receive(body, stream) ==
    /\ req.pc \in {"idle", "done"}
    /\ ld.pc = "idle"
    /\ served < MaxRequests
    /\ req' = [NewReq EXCEPT !.pc = "limit", !.body = body, !.stream = stream]
    /\ served' = served + 1
    /\ UNCHANGED << diskVars, loaderVars, kvsVars, cfgVars, toolVars, ageVars, metricVars, lockVars, failing, limVars, sse >>

\* Mutant: the 429 is recorded but the handler goes on.
RateLimit_Proceeds(kvs_ok, enough) ==
    /\ req.pc = "limit"
    /\ req' = IF check_limit(kvs_ok, enough)
                 THEN [req EXCEPT !.pc = "extract"]
                 ELSE [req EXCEPT !.pc = "extract", !.status = 429]
    /\ UNCHANGED << diskVars, loaderVars, kvsVars, cfgVars, toolVars, ageVars, metricVars, lockVars, failing, served, sse >>

\* Lines 187-195.  What the call does to the bucket is conjoined by the
\* specification that uses this action.
RateLimit(kvs_ok, enough) ==
    /\ req.pc = "limit"
    /\ req' = IF check_limit(kvs_ok, enough)
                 THEN [req EXCEPT !.pc = "extract"]
                 ELSE Finish(req, 429)
    /\ UNCHANGED << diskVars, loaderVars, kvsVars, cfgVars, toolVars, ageVars, metricVars, lockVars, failing, served, sse >>

\* Lines 198-202: m["role"] raises KeyError on a message without a role;
\* otherwise the handler calls load_state_safe().
Extract ==
    /\ req.pc = "extract"
    /\ IF req.body = "no_role"
          THEN /\ req' = Raise(req, 198)
               /\ UNCHANGED ld
          ELSE /\ req' = [req EXCEPT !.pc = "refresh"]
               /\ ld' = EnterLoad
    /\ UNCHANGED << diskVars, PROVIDERS, loadAge, kvsVars, cfgVars, toolVars, ageVars, metricVars, lockVars, failing, limVars, sse, served >>

\* Mutant: the load runs beside the handler, which does not wait for it.
Judge_NoWait(out) ==
    /\ req.pc = "refresh"
    /\ req' = CASE out = "nondict" -> Raise(req, 206)
                [] out = "fallback" -> [req EXCEPT !.pc = "gpu", !.cat = "SIMPLE"]
                [] OTHER -> [req EXCEPT !.pc = "gpu", !.cat = out]
    /\ UNCHANGED << diskVars, loaderVars, kvsVars, cfgVars, toolVars, ageVars, metricVars, lockVars, failing, limVars, sse, served >>
\* Lines 205-206, once load_state_safe has returned: analysis.get raises
\* AttributeError on JSON that is not an object.
Judge(out) ==
    /\ req.pc = "refresh"
    /\ ld.pc = "idle"
    /\ req' = CASE out = "nondict" -> Raise(req, 206)
                [] out = "fallback" -> [req EXCEPT !.pc = "gpu", !.cat = "SIMPLE"]
                [] OTHER -> [req EXCEPT !.pc = "gpu", !.cat = out]
    /\ UNCHANGED << diskVars, loaderVars, kvsVars, cfgVars, toolVars, ageVars, metricVars, lockVars, failing, limVars, sse, served >>

\* Lines 209-210: r.get raises when the KVS cannot be reached; otherwise
\* the gauge follows the flag.
ReadGpu(kvs_ok) ==
    /\ req.pc = "gpu"
    /\ req' = IF kvs_ok
                 THEN [req EXCEPT !.pc = "sane", !.gpu_on = GpuOn(gpu_status)]
                 ELSE Raise(req, 209)
    /\ gpu_gauge' = IF kvs_ok THEN GaugeValue(GpuOn(gpu_status)) ELSE gpu_gauge
    /\ UNCHANGED << diskVars, loaderVars, kvsVars, cfgVars, toolVars, ageVars, scrape, lockVars, failing, limVars, sse, served >>

\* Line 211: r.exists raises when the KVS cannot be reached.
Sane(kvs_ok) ==
    /\ req.pc = "sane"
    /\ req' = IF kvs_ok
                 THEN [req EXCEPT !.pc = "route",
                          !.sane_list = get_sane_providers(PROVIDERS, cooldown, req.gpu_on)]
                 ELSE Raise(req, 130)
    /\ UNCHANGED << diskVars, loaderVars, kvsVars, cfgVars, toolVars, ageVars, metricVars, lockVars, failing, limVars, sse, served >>

\* Mutant: a manual target that is not sane gives way to the first sane
\* provider.
Target_SanityChecked(mode, manual, category, gpu_ready, sane_list) ==
    IF mode = "MANUAL"
       THEN IF Contains(sane_list, manual) \/ sane_list = << >>
               THEN manual
               ELSE Head(sane_list)
       ELSE decide_routing(category, gpu_ready, sane_list)
\* Lines 213-216: the manual target replaces the router's decision.
Target(mode, manual, category, gpu_ready, sane_list) ==
    IF mode = "MANUAL"
       THEN manual
       ELSE decide_routing(category, gpu_ready, sane_list)

\* Lines 213-223: the target, the language directive appended to the last
\* message (IndexError on an empty list), the ranked attempts.
Route ==
    /\ req.pc = "route"
    /\ req' =
         IF current_mode # "MANUAL" /\ req.sane_list = << >>
            THEN Raise(req, IF req.cat = "CODING" THEN 171 ELSE 177)
            ELSE LET target == Target(current_mode, manual_target_id, req.cat,
                                      req.gpu_on, req.sane_list)
                     r1 == [req EXCEPT !.target_id = target]
                 IN IF req.body = "empty"
                       THEN Raise(r1, 220)
                       ELSE [r1 EXCEPT !.pc = "waterfall", !.idx = 1,
                                       !.directives =
                                           Append(@, Len(Messages(req.body))),
                                       !.attempts = Attempts(target, req.sane_list)]
    /\ UNCHANGED << diskVars, loaderVars, kvsVars, cfgVars, toolVars, ageVars, metricVars, lockVars, failing, limVars, sse, served >>

\* Lines 139-140 on the KVS.
log_success(st, p_id) == [st EXCEPT ![p_id] = @ + 1]
\* Mutant: the key is written with twice the time to live.
set_cooldown_LongTTL(cd, p_id) == [cd EXCEPT ![p_id] = 2 * CooldownTTL]
\* Lines 135-137 on the KVS: SETEX puts the key, with a fresh TTL.
set_cooldown(cd, p_id) == [cd EXCEPT ![p_id] = CooldownTTL]

\* The generator of a google streaming response is created without calling
\* upstream (lines 235-241): the call of line 236 runs when the response is
\* iterated, after the handler has returned.
Deferred(p, stream) == p.type = "google" /\ stream

\* One iteration of the loop of lines 225-265 for a known provider p whose
\* upstream call ends in out; kvs_ok tells whether the KVS call made in this
\* iteration (incr, or setex) succeeds.
AttemptKnown(p, out, kvs_ok) ==
    LET call == IF Deferred(p, req.stream) THEN "deferred" ELSE out
        Ended(how) == [req EXCEPT !.tried = Append(@, << p.id, call, how >>)]
        next(how) == [Ended(how) EXCEPT !.idx = @ + 1]
    IN CASE out = "ok" /\ kvs_ok ->
              \* log_success, then the response is returned
              /\ stats' = log_success(stats, p.id)
              /\ req' = [Ended("returned") EXCEPT
                            !.status = 200, !.responder = p.id,
                            !.pc = IF req.stream THEN "streaming" ELSE "done"]
              /\ UNCHANGED << cooldown, markAge >>
         [] out = "ok" /\ ~kvs_ok ->
              \* r.incr raises inside the try block: line 262 catches it
              /\ req' = next("caught")
              /\ UNCHANGED << stats, cooldown, markAge >>
         [] IsQuotaError(out) /\ kvs_ok ->
              /\ cooldown' = set_cooldown(cooldown, p.id)
              /\ markAge' = [markAge EXCEPT ![p.id] = 0]
              /\ req' = [next("caught") EXCEPT !.cooled = @ \cup {p.id}]
              /\ UNCHANGED stats
         [] IsQuotaError(out) /\ ~kvs_ok ->
              \* r.setex raises inside the except block: nothing catches it
              /\ req' = Raise(Ended("raised"), 136)
              /\ UNCHANGED << stats, cooldown, markAge >>
         [] OTHER ->
              /\ kvs_ok   \* no KVS call is made: one step
              /\ req' = next("caught")
              /\ UNCHANGED << stats, cooldown, markAge >>

\* Lines 225-227: the next ranked id; an id without descriptor is skipped.
Attempt(out, kvs_ok) ==
    /\ req.pc = "waterfall"
    /\ req.idx <= Len(req.attempts)
    /\ LET p == Lookup(PROVIDERS, req.attempts[req.idx])
       IN IF p = NoDescriptor
             THEN /\ out = "ok" /\ kvs_ok   \* no call is made: one step
                  /\ req' = [req EXCEPT !.idx = @ + 1]
                  /\ UNCHANGED << stats, cooldown, markAge >>
             ELSE /\ Deferred(p, req.stream) => out = "ok"
                  /\ AttemptKnown(p, out, kvs_ok)
    /\ UNCHANGED << diskVars, loaderVars, gpu_status, cfgVars, toolVars, readAge, metricVars, lockVars, failing, limVars, sse, served >>

\* Line 267.
Exhausted ==
    /\ req.pc = "waterfall"
    /\ req.idx > Len(req.attempts)
    /\ req' = Finish(req, 503)
    /\ UNCHANGED << diskVars, loaderVars, kvsVars, cfgVars, toolVars, ageVars, metricVars, lockVars, failing, limVars, sse, served >>

\* The streaming response is iterated after the handler returned 200.  For
\* a google provider this is where upstream is called (line 236); nothing
\* catches its failure.
StreamBody(out) ==
    /\ req.pc = "streaming"
    /\ LET p == Lookup(PROVIDERS, req.responder)
       IN IF p.type = "google"
             THEN req' = [req EXCEPT !.pc = "done", !.stream_out = out]
             ELSE /\ out = "ok"
                  /\ req' = [req EXCEPT !.pc = "done"]
    /\ UNCHANGED << diskVars, loaderVars, kvsVars, cfgVars, toolVars, ageVars, metricVars, lockVars, failing, limVars, sse, served >>

(***************************************************************************)
(* Environment of the pipeline                                             *)
(***************************************************************************)
\* tools/set_gpu_status.py: r.set("gpu_status", status)
GpuValues == {"VERDE", "GREEN"}
SetGpuStatus(status) ==
    /\ gpu_status # status
    /\ gpu_status' = status
    /\ UNCHANGED << diskVars, loaderVars, cooldown, stats, cfgVars, toolVars, ageVars, metricVars, lockVars, failing, limVars, sse, reqVars >>

(***************************************************************************)
(* Specifications                                                          *)
(***************************************************************************)
NoCooldown == [id \in Ids |-> 0]
NoStats == [id \in Ids |-> 0]

\* Requests served next to the one followed step by step; each is in the
\* loop of lines 225-265, calling a provider.
Requesters == {"q1", "q2"}
Calling == [pc |-> "calling", id |-> None]

\* state.json was last read when LAST_STATE_LOAD was set; no cooldown was
\* set within the last CooldownTTL seconds.
NoAges ==
    /\ readAge = loadAge
    /\ markAge = [id \in Ids |-> CooldownTTL]
    /\ failing = [q \in Requesters |-> Calling]

\* The gauge as created by line 89, nobody scraping.
NoScrape == [pc |-> "idle", kvs_ok |-> TRUE, before |-> 0, status |-> 0]
NoMetrics ==
    /\ gpu_gauge = 0
    /\ scrape = NoScrape

\* No scan runs and no temp file is left; no quota key exists, it is
\* midnight of the first day; ProxmoxManager has not been called.
Scanners == {"s1", "s2"}
MaxDay == 1
Days == 0..MaxDay
\* What TTL answers for a key that does not exist, and for a key without
\* expiry.
NoSuchKey == -2
NoExpiry == -1
NoQuotaKey == [count |-> 0, ttl |-> NoSuchKey]
NoArg == [kind |-> None, text |-> None]
NoCall ==
    [fn |-> None, arg |-> NoArg, dry_run |-> FALSE, ret |-> None,
     calls |-> << >>, issued |-> {}]
NoTools ==
    /\ temp_file = ENOENT
    /\ scans = [s \in Scanners |-> "idle"]
    /\ quota = [day \in Days |-> NoQuotaKey]
    /\ clock = [day |-> 0, hour |-> 0]
    /\ pve = NoCall

\* Nobody uses the lock file.
LockUsers == {"u1", "u2", "u3", "u4"}
NoLock ==
    /\ lock_pc = [u \in LockUsers |-> "out"]
    /\ lock_holders = {}

\* No streaming response is followed chunk by chunk.
NoStream == [type |-> None, req_model |-> None, response |-> << >>,
             frames |-> << >>, closed |-> FALSE]

\* Other clients of the bucket of global_user: processes that call the
\* limiter at the same time as this one.
Callers == {"c1", "c2"}
\* The limiter is left out: no other client, an untouched bucket.
NoLimiter ==
    /\ bucket = FreshBucket("cheap")
    /\ callers = [c \in Callers |-> "idle"]
    /\ hist = [initial |-> Capacity("cheap"), elapsed |-> 0, accepted |-> 0]
    /\ kvs_up = TRUE
    /\ sse = NoStream

\* Module import: PROVIDERS = {}, LAST_STATE_LOAD = 0, and line 78 is about
\* to call load_state_safe().
InitProcess ==
    /\ PROVIDERS = << >>
    /\ loadAge = ReloadInterval
    /\ ld = EnterLoad
    /\ cooldown = NoCooldown
    /\ stats = NoStats
    /\ NoAges
    /\ NoMetrics
    /\ NoLock
    /\ NoTools
    /\ req = NewReq
    /\ served = 0

\* The pipeline: the state files are the default document with its checksum
\* (written with a trailing newline), or a checksum file is missing; the
\* KVS holds no key; the routing mode is AUTO, or MANUAL with a target.
Init ==
    /\ InitProcess
    /\ state_file = "DOC_DEFAULT"
    /\ checksum_file \in {[body |-> Sha256("DOC_DEFAULT"), ws |-> TRUE], NoChecksumFile}
    /\ gpu_status = None
    /\ \E cfg \in {<< "AUTO", None >>, << "MANUAL", "ollama" >>} :
          current_mode = cfg[1] /\ manual_target_id = cfg[2]
    /\ NoLimiter

Next ==
    \/ LoadEntry
    \/ ReadChecksum
    \/ ReadState
    \/ Validate
    \/ \E body \in Bodies, stream \in BOOLEAN : Receive(body, stream)
    \/ \E kvs_ok \in BOOLEAN, enough \in BOOLEAN :
          RateLimit(kvs_ok, enough) /\ UNCHANGED limVars
    \/ Extract
    \/ \E out \in JudgeOutputs : Judge(out)
    \/ \E kvs_ok \in BOOLEAN : ReadGpu(kvs_ok)
    \/ \E kvs_ok \in BOOLEAN : Sane(kvs_ok)
    \/ Route
    \/ \E out \in Outcomes, kvs_ok \in BOOLEAN : Attempt(out, kvs_ok)
    \/ Exhausted
    \/ \E out \in Outcomes : StreamBody(out)
    \/ \E status \in GpuValues : SetGpuStatus(status)
    \/ Tick

Spec == Init /\ [][Next]_vars

\* The pipeline in AUTO mode, against a scan tool that rewrites the state
\* files (infrastructure_scan.py:144-155) with either well-formed document
\* at any time, requests in flight or not.
InitSnapshot ==
    /\ InitProcess
    /\ state_file = "DOC_DEFAULT"
    /\ checksum_file = [body |-> Sha256("DOC_DEFAULT"), ws |-> TRUE]
    /\ gpu_status = None
    /\ current_mode = "AUTO"
    /\ manual_target_id = None
    /\ NoLimiter

NextSnapshot ==
    \/ Next
    \/ \E doc \in GoodDocs : WriteState(doc)
    \/ \E doc \in GoodDocs : WriteChecksum([body |-> Sha256(doc), ws |-> TRUE])

SpecSnapshot == InitSnapshot /\ [][NextSnapshot]_vars

\* The loader alone, against a writer that changes the two files in any
\* order at any time.
InitLoader ==
    /\ InitProcess
    /\ state_file \in Docs \cup {ENOENT}
    /\ checksum_file \in ChecksumTexts \cup {NoChecksumFile}
    /\ gpu_status = None
    /\ current_mode = "AUTO"
    /\ manual_target_id = None
    /\ NoLimiter

NextLoader ==
    \/ LoadEntry
    \/ ReadChecksum
    \/ ReadState
    \/ Validate
    \/ LoadCall
    \/ Tick
    \/ \E doc \in Docs \cup {ENOENT} : WriteState(doc)
    \/ \E text \in ChecksumTexts \cup {NoChecksumFile} : WriteChecksum(text)

SpecLoader == InitLoader /\ [][NextLoader]_vars

\* decide_routing alone, on every category, GPU flag and list of at most
\* MaxSane distinct ids (the four of the registry and one other).
MaxSane == 3
Categories == {"CODING", "SIMPLE", "OTHER"}
RouterIds == Ids \cup {"other"}
SaneLists ==
    {s \in UNION {[1..n -> RouterIds] : n \in 1..MaxSane} :
        \A i, j \in DOMAIN s : i # j => s[i] # s[j]}

InitRouter ==
    /\ state_file = "DOC_DEFAULT"
    /\ checksum_file = HexDigest("DOC_DEFAULT")
    /\ PROVIDERS = Enrich(DEFAULT_PROVIDERS)
    /\ loadAge = 0
    /\ ld = IdleLoad
    /\ gpu_status = None
    /\ cooldown = NoCooldown
    /\ stats = NoStats
    /\ NoAges
    /\ NoMetrics
    /\ NoLock
    /\ NoTools
    /\ current_mode = "AUTO"
    /\ manual_target_id = None
    /\ NoLimiter
    /\ served = 1
    /\ \E category \in Categories, gpu_ready \in BOOLEAN, sane_list \in SaneLists :
          req = [NewReq EXCEPT !.pc = "route", !.cat = category,
                               !.gpu_on = gpu_ready, !.sane_list = sane_list]

SpecRouter == InitRouter /\ [][Route]_vars

(***************************************************************************)
(* generate() alone (main.py:235-239 and 250-254): a streaming response    *)
(* whose upstream call succeeded is iterated to its end.                   *)
(***************************************************************************)
MaxChunks == 3
UpstreamModels == {"qwen2.5:14b", "llama-3.3"}
Texts == {"a", "b"}
Chunks == [model : UpstreamModels, text : Texts]
Responses == UNION {[1..n -> Chunks] : n \in 0..MaxChunks}
Done == [data |-> "[DONE]"]

\* Mutant: the chunk is passed on as upstream sent it.
Frame_KeepsModel(type, chunk, req_model) ==
    [data |-> "chunk", model |-> chunk.model, content |-> chunk.text]
\* Line 238 (google: a frame made from chunk.text) and lines 252-253
\* (openai: the dumped chunk with d["model"] = req_model).
Frame(type, chunk, req_model) ==
    [data |-> "chunk", model |-> req_model, content |-> chunk.text]

\* for chunk in response: yield ...
YieldChunk ==
    /\ ~sse.closed
    /\ Len(sse.frames) < Len(sse.response)
    /\ sse' = [sse EXCEPT !.frames =
                   Append(@, Frame(sse.type, sse.response[Len(sse.frames) + 1],
                                   sse.req_model))]
    /\ UNCHANGED << diskVars, loaderVars, kvsVars, cfgVars, toolVars, ageVars, metricVars, lockVars, failing, reqVars, limVars >>

\* yield "data: [DONE]\n\n", and the generator returns.
YieldDone ==
    /\ ~sse.closed
    /\ Len(sse.frames) = Len(sse.response)
    /\ sse' = [sse EXCEPT !.frames = Append(@, Done), !.closed = TRUE]
    /\ UNCHANGED << diskVars, loaderVars, kvsVars, cfgVars, toolVars, ageVars, metricVars, lockVars, failing, reqVars, limVars >>

InitStream ==
    /\ state_file = "DOC_DEFAULT"
    /\ checksum_file = HexDigest("DOC_DEFAULT")
    /\ PROVIDERS = Enrich(DEFAULT_PROVIDERS)
    /\ loadAge = 0
    /\ ld = IdleLoad
    /\ gpu_status = None
    /\ cooldown = NoCooldown
    /\ stats = NoStats
    /\ NoAges
    /\ NoMetrics
    /\ NoLock
    /\ NoTools
    /\ current_mode = "AUTO"
    /\ manual_target_id = None
    /\ served = 1
    /\ req = [NewReq EXCEPT !.pc = "streaming", !.stream = TRUE, !.status = 200]
    /\ bucket = FreshBucket("cheap")
    /\ callers = [c \in Callers |-> "idle"]
    /\ hist = [initial |-> Capacity("cheap"), elapsed |-> 0, accepted |-> 0]
    /\ kvs_up = TRUE
    /\ \E type \in {"openai", "google"}, req_model \in Models, response \in Responses :
          sse = [NoStream EXCEPT !.type = type, !.req_model = req_model,
                                 !.response = response]

NextStream ==
    \/ YieldChunk
    \/ YieldDone

SpecStream == InitStream /\ [][NextStream]_vars

(***************************************************************************)
(* The limiter alone: one request of this process at line 194 and the      *)
(* calls of other clients on the same bucket, in any interleaving, while   *)
(* seconds pass and the KVS comes and goes.                                *)
(***************************************************************************)
\* Calls accepted in one behaviour, and seconds that pass in it.
MaxAccepted == 52
MaxElapsed == 13

\* A call reaches the KVS (or fails to): the script runs, and the history
\* counts what it gave out.
ScriptRuns ==
    /\ bucket' = IF kvs_up THEN Script(bucket, Cost) ELSE bucket
    /\ hist' = IF kvs_up /\ Fits(CurrentLevel(bucket), Cost)
                  THEN [hist EXCEPT !.accepted = @ + 1]
                  ELSE hist

\* Another client sends its call.
Send(c) ==
    /\ callers[c] # "pending"
    /\ hist.accepted < MaxAccepted
    /\ callers' = [callers EXCEPT ![c] = "pending"]
    /\ UNCHANGED << diskVars, loaderVars, kvsVars, cfgVars, toolVars, ageVars, metricVars, lockVars, failing, reqVars, bucket, hist, kvs_up, sse >>

\* Its call is served.
Exec(c) ==
    /\ callers[c] = "pending"
    /\ callers' = [callers EXCEPT ![c] =
                      IF check_limit(kvs_up, Fits(CurrentLevel(bucket), Cost))
                         THEN "allowed" ELSE "denied"]
    /\ ScriptRuns
    /\ UNCHANGED << diskVars, loaderVars, kvsVars, cfgVars, toolVars, ageVars, metricVars, lockVars, failing, reqVars, kvs_up, sse >>

\* The request of this process calls the limiter (lines 187-195).
LimitRequest ==
    /\ RateLimit(kvs_up, Fits(CurrentLevel(bucket), Cost))
    /\ ScriptRuns
    /\ UNCHANGED << callers, kvs_up >>

\* A second passes.
LimiterTick ==
    /\ hist.elapsed < MaxElapsed
    /\ Elapse(1)
    /\ bucket' = IF bucket.present
                    THEN [bucket EXCEPT !.age = Min(FullAfter(bucket.class), @ + 1)]
                    ELSE bucket
    /\ hist' = [hist EXCEPT !.elapsed = @ + 1]
    /\ UNCHANGED << diskVars, PROVIDERS, ld, gpu_status, stats, cfgVars, toolVars, metricVars, lockVars, failing, reqVars,
                    callers, kvs_up, sse >>

\* The KVS becomes unreachable, or reachable again.
KvsFlip ==
    /\ kvs_up' = ~kvs_up
    /\ UNCHANGED << diskVars, loaderVars, kvsVars, cfgVars, toolVars, ageVars, metricVars, lockVars, failing, reqVars, bucket, callers, hist, sse >>

\* The bucket is fresh, or holds one token.
InitLimiter ==
    /\ state_file = "DOC_DEFAULT"
    /\ checksum_file = HexDigest("DOC_DEFAULT")
    /\ PROVIDERS = Enrich(DEFAULT_PROVIDERS)
    /\ loadAge = 0
    /\ ld = IdleLoad
    /\ gpu_status = None
    /\ cooldown = NoCooldown
    /\ stats = NoStats
    /\ NoAges
    /\ NoMetrics
    /\ NoLock
    /\ NoTools
    /\ current_mode = "AUTO"
    /\ manual_target_id = None
    /\ served = 1
    /\ req = [NewReq EXCEPT !.pc = "limit"]
    /\ callers = [c \in Callers |-> "idle"]
    /\ kvs_up = TRUE
    /\ sse = NoStream
    /\ \E req_model \in Models :
          \/ bucket = FreshBucket(limit_type(req_model))
          \/ bucket = [FreshBucket(limit_type(req_model)) EXCEPT
                          !.present = TRUE, !.stored = Cost * Scale]
    /\ hist = [initial |-> CurrentLevel(bucket), elapsed |-> 0, accepted |-> 0]

NextLimiter ==
    \/ \E c \in Callers : Send(c)
    \/ \E c \in Callers : Exec(c)
    \/ LimitRequest
    \/ LimiterTick
    \/ KvsFlip

SpecLimiter == InitLimiter /\ [][NextLimiter]_vars

\* A process that has loaded the default registry and serves no request.
InitServing ==
    /\ state_file = "DOC_DEFAULT"
    /\ checksum_file = HexDigest("DOC_DEFAULT")
    /\ PROVIDERS = Enrich(DEFAULT_PROVIDERS)
    /\ loadAge = 0
    /\ ld = IdleLoad
    /\ cooldown = NoCooldown
    /\ stats = NoStats
    /\ NoAges
    /\ current_mode = "AUTO"
    /\ manual_target_id = None
    /\ NoLimiter

(***************************************************************************)
(* tools/core/lock_manager.py: every acquire_lock() call builds its own    *)
(* LockManager, which opens LOCK_FILE (a new open file description) and    *)
(* calls flock on it.                                                      *)
(***************************************************************************)
\* Mutant: a shared lock is asked for.
Flock_LOCK_SH(holders, u) == TRUE
\* Line 27: flock(LOCK_EX) returns once no other open file description
\* holds a lock on the file.
Flock_LOCK_EX(holders, u) == holders \ {u} = {}

\* Lines 62 and 22-23.
Open(u) ==
    /\ lock_pc[u] = "out"
    /\ lock_pc' = [lock_pc EXCEPT ![u] = "opened"]
    /\ UNCHANGED << diskVars, loaderVars, kvsVars, cfgVars, toolVars, ageVars, metricVars, failing, limVars, sse, reqVars, lock_holders >>

\* Lines 27-28 and 63-65: the call blocks until the lock is granted, then
\* the with-block is entered.
Acquire(u) ==
    /\ lock_pc[u] = "opened"
    /\ Flock_LOCK_EX(lock_holders, u)
    /\ lock_pc' = [lock_pc EXCEPT ![u] = "inside"]
    /\ lock_holders' = lock_holders \cup {u}
    /\ UNCHANGED << diskVars, loaderVars, kvsVars, cfgVars, toolVars, ageVars, metricVars, failing, limVars, sse, reqVars >>

\* Mutant: an exception in the with-block skips the release.
Leave_NoFinally(u) ==
    /\ lock_pc[u] = "inside"
    /\ lock_pc' = [lock_pc EXCEPT ![u] = "out"]
    /\ UNCHANGED << diskVars, loaderVars, kvsVars, cfgVars, toolVars, ageVars, metricVars, failing, limVars, sse, reqVars, lock_holders >>
\* Lines 66-67: the with-block ends, normally or with an exception.
Leave(u) ==
    /\ lock_pc[u] = "inside"
    /\ lock_pc' = [lock_pc EXCEPT ![u] = "releasing"]
    /\ UNCHANGED << diskVars, loaderVars, kvsVars, cfgVars, toolVars, ageVars, metricVars, failing, limVars, sse, reqVars, lock_holders >>

\* Line 39: flock(LOCK_UN).
Unlock(u) ==
    /\ lock_pc[u] = "releasing"
    /\ lock_pc' = [lock_pc EXCEPT ![u] = "unlocked"]
    /\ lock_holders' = lock_holders \ {u}
    /\ UNCHANGED << diskVars, loaderVars, kvsVars, cfgVars, toolVars, ageVars, metricVars, failing, limVars, sse, reqVars >>

\* Lines 40-45: the handle is closed and forgotten.
Close(u) ==
    /\ lock_pc[u] = "unlocked"
    /\ lock_pc' = [lock_pc EXCEPT ![u] = "out"]
    /\ lock_holders' = lock_holders \ {u}
    /\ UNCHANGED << diskVars, loaderVars, kvsVars, cfgVars, toolVars, ageVars, metricVars, failing, limVars, sse, reqVars >>

InitLock ==
    /\ InitServing
    /\ gpu_status = None
    /\ req = NewReq
    /\ served = 0
    /\ NoMetrics
    /\ NoLock
    /\ NoTools

NextLock ==
    \/ \E u \in LockUsers : Open(u)
    \/ \E u \in LockUsers : Acquire(u)
    \/ \E u \in LockUsers : Leave(u)
    \/ \E u \in LockUsers : Unlock(u)
    \/ \E u \in LockUsers : Close(u)

SpecLock == InitLock /\ [][NextLock]_vars

\* A thread that can run does run: a with-block ends, release() goes
\* through its two calls, and a flock call that could return from some
\* point on does return.
FairLock ==
    \A u \in LockUsers :
       /\ WF_vars(Acquire(u))
       /\ WF_vars(Leave(u))
       /\ WF_vars(Unlock(u))
       /\ WF_vars(Close(u))

SpecLockFair == SpecLock /\ FairLock

(***************************************************************************)
(* The GPU gauge (main.py:89, 95-118): start-up and the middleware of GET  *)
(* /metrics, next to a chat request at line 209 and the tool that sets the *)
(* flag.                                                                   *)
(***************************************************************************)
\* Mutant: a failed read resets the gauge.
GaugeOnScrape_Resets(kvs_ok, status, gauge) ==
    IF kvs_ok THEN GaugeValue(GpuOn(status)) ELSE 0
\* Lines 99-104: the gauge after the middleware; except Exception: pass.
GaugeOnScrape(kvs_ok, status, gauge) ==
    IF kvs_ok THEN GaugeValue(status # None /\ GpuOn(status)) ELSE gauge

\* Lines 107-118: the start-up hook; a KVS error is printed.
Startup(kvs_ok) ==
    /\ scrape.pc = "boot"
    /\ scrape' = [scrape EXCEPT !.pc = "idle"]
    /\ gpu_gauge' = IF kvs_ok THEN GaugeValue(GpuOn(gpu_status)) ELSE gpu_gauge
    /\ UNCHANGED << diskVars, loaderVars, kvsVars, cfgVars, toolVars, ageVars, lockVars, failing, limVars, sse, reqVars >>

\* A GET /metrics request enters the middleware (line 96).
ScrapeReceive ==
    /\ scrape.pc \in {"idle", "answered"}
    /\ scrape' = [NoScrape EXCEPT !.pc = "middleware"]
    /\ UNCHANGED << diskVars, loaderVars, kvsVars, cfgVars, toolVars, ageVars, lockVars, failing, limVars, sse, reqVars, gpu_gauge >>

\* Lines 98-104.
ScrapeUpdate(kvs_ok) ==
    /\ scrape.pc = "middleware"
    /\ gpu_gauge' = GaugeOnScrape(kvs_ok, gpu_status, gpu_gauge)
    /\ scrape' = [scrape EXCEPT !.pc = "call_next", !.kvs_ok = kvs_ok,
                                 !.before = gpu_gauge]
    /\ UNCHANGED << diskVars, loaderVars, kvsVars, cfgVars, toolVars, ageVars, lockVars, failing, limVars, sse, reqVars >>

\* Line 105: the exposition endpoint answers.
ScrapeAnswer ==
    /\ scrape.pc = "call_next"
    /\ scrape' = [scrape EXCEPT !.pc = "answered", !.status = 200]
    /\ UNCHANGED << diskVars, loaderVars, kvsVars, cfgVars, toolVars, ageVars, lockVars, failing, limVars, sse, reqVars, gpu_gauge >>

InitMetrics ==
    /\ InitServing
    /\ gpu_status \in GpuValues \cup {None}
    /\ req = [NewReq EXCEPT !.pc = "gpu"]
    /\ served = 1
    /\ gpu_gauge = 0
    /\ scrape = [NoScrape EXCEPT !.pc = "boot"]
    /\ NoLock
    /\ NoTools

NextMetrics ==
    \/ \E kvs_ok \in BOOLEAN : Startup(kvs_ok)
    \/ ScrapeReceive
    \/ \E kvs_ok \in BOOLEAN : ScrapeUpdate(kvs_ok)
    \/ ScrapeAnswer
    \/ \E kvs_ok \in BOOLEAN : ReadGpu(kvs_ok)
    \/ \E status \in GpuValues : SetGpuStatus(status)

SpecMetrics == InitMetrics /\ [][NextMetrics]_vars

(***************************************************************************)
(* tools/core/infrastructure_scan.py: the write sequence of lines 135-155, *)
(* run by processes started independently (a timer, an operator).  The     *)
(* tool never imports lock_manager: no step takes or waits for the lock.   *)
(***************************************************************************)
\* Line 136: json_output; two scans differ at least in meta.generated_at.
ScanOutput(s) == IF s = "s1" THEN "DOC_SCAN_1" ELSE "DOC_SCAN_2"

\* Lines 136-139: the document and its checksum are computed.
Serialize(s) ==
    /\ scans[s] = "idle"
    /\ scans' = [scans EXCEPT ![s] = "serialized"]
    /\ UNCHANGED << diskVars, loaderVars, kvsVars, cfgVars, ageVars, metricVars, lockVars, failing, limVars, sse, reqVars, temp_file, quota, clock, pve >>

\* Lines 144-145.
WriteTemp(s) ==
    /\ scans[s] = "serialized"
    /\ temp_file' = ScanOutput(s)
    /\ scans' = [scans EXCEPT ![s] = "wrote_temp"]
    /\ UNCHANGED << diskVars, loaderVars, kvsVars, cfgVars, ageVars, metricVars, lockVars, failing, limVars, sse, reqVars, quota, clock, pve >>

\* Lines 149-150: the digest, as hexdigest() gives it.
WriteDigest(s) ==
    /\ scans[s] = "wrote_temp"
    /\ checksum_file' = HexDigest(ScanOutput(s))
    /\ scans' = [scans EXCEPT ![s] = "wrote_checksum"]
    /\ UNCHANGED << state_file, loaderVars, kvsVars, cfgVars, ageVars, metricVars, lockVars, failing, limVars, sse, reqVars, temp_file, quota, clock, pve >>

\* Line 155: shutil.move renames the temp file onto state.json; it raises
\* when the temp file is gone, and lines 175-178 re-raise.
MoveTemp(s) ==
    /\ scans[s] = "wrote_checksum"
    /\ IF temp_file = ENOENT
          THEN /\ scans' = [scans EXCEPT ![s] = "failed"]
               /\ UNCHANGED << state_file, temp_file >>
          ELSE /\ state_file' = temp_file
               /\ temp_file' = ENOENT
               /\ scans' = [scans EXCEPT ![s] = "done"]
    /\ UNCHANGED << checksum_file, loaderVars, kvsVars, cfgVars, ageVars, metricVars, lockVars, failing, limVars, sse, reqVars, quota, clock, pve >>

\* The tool is started again.
Rescan(s) ==
    /\ scans[s] \in {"done", "failed"}
    /\ scans' = [scans EXCEPT ![s] = "idle"]
    /\ UNCHANGED << diskVars, loaderVars, kvsVars, cfgVars, ageVars, metricVars, lockVars, failing, limVars, sse, reqVars, temp_file, quota, clock, pve >>

InitScan ==
    /\ InitServing
    /\ gpu_status = None
    /\ req = NewReq
    /\ served = 0
    /\ NoMetrics
    /\ NoLock
    /\ NoTools

NextScan ==
    \/ \E s \in Scanners : Serialize(s)
    \/ \E s \in Scanners : WriteTemp(s)
    \/ \E s \in Scanners : WriteDigest(s)
    \/ \E s \in Scanners : MoveTemp(s)
    \/ \E s \in Scanners : Rescan(s)

SpecScan == InitScan /\ [][NextScan]_vars

(***************************************************************************)
(* orchestrator/rate_limiter.py, the daily quota of one provider: the key  *)
(* quota:<provider>:<day> of each day, its value and its TTL in seconds,   *)
(* with a clock that advances hour by hour.                                *)
(***************************************************************************)
MaxUsage == 3
DayHours == 24
HourSeconds == 3600

\* Lines 71-73, on the hour.
SecondsUntilMidnight(hour) == (DayHours - hour) * HourSeconds

\* INCR: a missing key is created with value 1 and without expiry; an
\* existing key keeps its TTL.
Incr(k) ==
    IF k.ttl = NoSuchKey
       THEN [count |-> 1, ttl |-> NoExpiry]
       ELSE [k EXCEPT !.count = @ + 1]

\* Lines 65-76: _get_key gives the key of today; TTL is asked before the
\* pipeline runs; the pipeline is INCR, then EXPIRE if the answer was -1.
increment_usage ==
    /\ quota[clock.day].count < MaxUsage
    /\ LET key == clock.day
           ttl == quota[key].ttl
           incremented == Incr(quota[key])
       IN quota' = [quota EXCEPT ![key] =
                       IF ttl = NoExpiry
                          THEN [incremented EXCEPT
                                  !.ttl = SecondsUntilMidnight(clock.hour) + HourSeconds]
                          ELSE incremented]
    /\ UNCHANGED << diskVars, loaderVars, kvsVars, cfgVars, ageVars, metricVars, lockVars, failing, limVars, sse, reqVars, temp_file, scans, clock, pve >>

\* An hour passes: the TTLs run down and the keys that expire go.
Hour ==
    /\ clock.hour + 1 < DayHours \/ clock.day < MaxDay
    /\ clock' = IF clock.hour + 1 < DayHours
                   THEN [clock EXCEPT !.hour = @ + 1]
                   ELSE [day |-> clock.day + 1, hour |-> 0]
    /\ quota' = [day \in Days |->
                   IF quota[day].ttl < 0 THEN quota[day]
                   ELSE IF quota[day].ttl <= HourSeconds THEN NoQuotaKey
                   ELSE [quota[day] EXCEPT !.ttl = @ - HourSeconds]]
    /\ UNCHANGED << diskVars, loaderVars, kvsVars, cfgVars, ageVars, metricVars, lockVars, failing, limVars, sse, reqVars, temp_file, scans, pve >>

InitQuota ==
    /\ InitServing
    /\ gpu_status = None
    /\ req = NewReq
    /\ served = 0
    /\ NoMetrics
    /\ NoLock
    /\ NoTools

NextQuota ==
    \/ increment_usage
    \/ Hour

SpecQuota == InitQuota /\ [][NextQuota]_vars

(***************************************************************************)
(* ProxmoxManager (manage_proxmox.py): create_vm, create_lxc and           *)
(* destroy_vm called in any order with any ids, with and without dry-run,  *)
(* against an API any call of which may raise.  An id argument is an int   *)
(* (the command line's type=int) or a string (a caller of the class); its  *)
(* text is what the API path carries.                                      *)
(***************************************************************************)
\* Line 19: CRITICAL_VMS = [100]
CRITICAL_VMS == {100}
Numerals == {"100", "101"}
VmArgs ==
    [kind : {"int", "str"}, text : Numerals] \cup {[kind |-> "str", text |-> "abc"]}
TemplateArgs == [kind : {"int"}, text : Numerals]
\* int(x): the number a numeral denotes; ValueError on any other string.
IsNumeral(text) == text \in Numerals
Decimal(text) == IF text = "100" THEN 100 ELSE 101

\* Mutant: the id is looked up as passed, without int(): a string is never
\* equal to a member of the list.
IsCritical_Unconverted(a) == a.kind = "int" /\ Decimal(a.text) \in CRITICAL_VMS
\* Lines 39, 75 and 109: int(id) in CRITICAL_VMS, for an id int() accepts.
IsCritical(a) == Decimal(a.text) \in CRITICAL_VMS

\* One call of the API: the operation, the id in its path, and for a clone
\* the newid parameter.
ApiCall(op, id, newid) == [op |-> op, id |-> id, newid |-> newid]
\* The API calls of create_vm (lines 50-61), destroy_vm (86-98) and
\* create_lxc (147), each of which may raise.
CreateVmCalls == {"clone", "config", "start"}
DestroyVmCalls == {"stop", "delete", "lxc_stop", "lxc_delete"}
CreateLxcCalls == {"lxc_create"}
\* The calls made until one raises, that one included.
RECURSIVE UpToFailure(_, _)
UpToFailure(plan, fails) ==
    IF plan = << >> THEN << >>
    ELSE IF Head(plan).op \in fails THEN << Head(plan) >>
    ELSE << Head(plan) >> \o UpToFailure(Tail(plan), fails)
Raised(plan, fails) == \E i \in 1..Len(plan) : plan[i].op \in fails

\* The manager after a call: what it returned or raised, the API calls it
\* made, and every API call made so far.
Called(fn, arg, dry_run, ret, calls) ==
    [fn |-> fn, arg |-> arg, dry_run |-> dry_run, ret |-> ret, calls |-> calls,
     issued |-> pve.issued \cup Range(calls)]

\* create_vm, lines 36-67; line 45 reads returnTrue, a name that does not
\* exist, outside the try.
create_vm(template_id, new_id, dry_run, fails) ==
    /\ LET plan == << ApiCall("clone", template_id.text, new_id.text),
                      ApiCall("config", new_id.text, None),
                      ApiCall("start", new_id.text, None) >>
       IN pve' =
            IF ~IsNumeral(new_id.text)
               THEN Called("create_vm", new_id, dry_run, "ValueError", << >>)
            ELSE IF IsCritical(new_id)
               THEN Called("create_vm", new_id, dry_run, "False", << >>)
            ELSE IF dry_run
               THEN Called("create_vm", new_id, dry_run, "NameError", << >>)
            ELSE Called("create_vm", new_id, dry_run,
                        IF Raised(plan, fails) THEN "False" ELSE "True",
                        UpToFailure(plan, fails))
    /\ UNCHANGED << diskVars, loaderVars, kvsVars, cfgVars, ageVars, metricVars, lockVars, failing, limVars, sse, reqVars, temp_file, scans, quota, clock >>

\* destroy_vm, lines 72-104: QEMU first, LXC if a QEMU call raises; an error
\* of the LXC stop is passed over.
destroy_vm(vmid, dry_run, fails) ==
    /\ LET qemu == << ApiCall("stop", vmid.text, None),
                      ApiCall("delete", vmid.text, None) >>
           lxc == << ApiCall("lxc_stop", vmid.text, None),
                     ApiCall("lxc_delete", vmid.text, None) >>
       IN pve' =
            IF ~IsNumeral(vmid.text)
               THEN Called("destroy_vm", vmid, dry_run, "ValueError", << >>)
            ELSE IF IsCritical(vmid)
               THEN Called("destroy_vm", vmid, dry_run, "False", << >>)
            ELSE IF dry_run
               THEN Called("destroy_vm", vmid, dry_run, "True", << >>)
            ELSE IF ~Raised(qemu, fails)
               THEN Called("destroy_vm", vmid, dry_run, "True", qemu)
            ELSE Called("destroy_vm", vmid, dry_run,
                        IF "lxc_delete" \in fails THEN "False" ELSE "True",
                        UpToFailure(qemu, fails) \o lxc)
    /\ UNCHANGED << diskVars, loaderVars, kvsVars, cfgVars, ageVars, metricVars, lockVars, failing, limVars, sse, reqVars, temp_file, scans, quota, clock >>

\* create_lxc, lines 106-152
create_lxc(vmid, dry_run, fails) ==
    /\ LET plan == << ApiCall("lxc_create", vmid.text, None) >>
       IN pve' =
            IF ~IsNumeral(vmid.text)
               THEN Called("create_lxc", vmid, dry_run, "ValueError", << >>)
            ELSE IF IsCritical(vmid)
               THEN Called("create_lxc", vmid, dry_run, "False", << >>)
            ELSE IF dry_run
               THEN Called("create_lxc", vmid, dry_run, "True", << >>)
            ELSE Called("create_lxc", vmid, dry_run,
                        IF Raised(plan, fails) THEN "False" ELSE "True",
                        UpToFailure(plan, fails))
    /\ UNCHANGED << diskVars, loaderVars, kvsVars, cfgVars, ageVars, metricVars, lockVars, failing, limVars, sse, reqVars, temp_file, scans, quota, clock >>

InitProxmox ==
    /\ InitServing
    /\ gpu_status = None
    /\ req = NewReq
    /\ served = 0
    /\ NoMetrics
    /\ NoLock
    /\ NoTools

NextProxmox ==
    \/ \E template_id \in TemplateArgs, new_id \in VmArgs, dry_run \in BOOLEAN,
          fails \in SUBSET CreateVmCalls :
          create_vm(template_id, new_id, dry_run, fails)
    \/ \E vmid \in VmArgs, dry_run \in BOOLEAN, fails \in SUBSET CreateLxcCalls :
          create_lxc(vmid, dry_run, fails)
    \/ \E vmid \in VmArgs, dry_run \in BOOLEAN,
          fails \in SUBSET DestroyVmCalls :
          destroy_vm(vmid, dry_run, fails)

SpecProxmox == InitProxmox /\ [][NextProxmox]_vars

(***************************************************************************)
(* The cooldown keys alone: requests served in parallel whose upstream     *)
(* calls fail on quota call set_cooldown (main.py:262-265) in any order,   *)
(* while the KVS clock runs second by second.                              *)
(***************************************************************************)
CooledIds == {"ollama", "groq"}

\* Lines 262-264: the upstream call of a request raised a quota error, on
\* its first attempt or on a later one (another provider).
QuotaError(q, id) ==
    /\ failing[q].pc \in {"calling", "marked"}
    /\ failing[q].id # id
    /\ failing' = [failing EXCEPT ![q] = [pc |-> "caught", id |-> id]]
    /\ UNCHANGED << diskVars, loaderVars, kvsVars, cfgVars, toolVars, ageVars, metricVars, lockVars, limVars, sse, reqVars >>

\* Mutant: a second call adds its TTL to what is left of the first.
MarkFailure_Adds(q) ==
    /\ failing[q].pc = "caught"
    /\ cooldown' = [cooldown EXCEPT ![failing[q].id] = @ + CooldownTTL]
    /\ markAge' = [markAge EXCEPT ![failing[q].id] = 0]
    /\ failing' = [failing EXCEPT ![q].pc = "marked"]
    /\ UNCHANGED << diskVars, loaderVars, gpu_status, stats, cfgVars, toolVars, readAge, metricVars, lockVars, limVars, sse, reqVars >>
\* Line 265: set_cooldown(p_id), one SETEX, atomic in the KVS.
MarkFailure(q) ==
    /\ failing[q].pc = "caught"
    /\ cooldown' = set_cooldown(cooldown, failing[q].id)
    /\ markAge' = [markAge EXCEPT ![failing[q].id] = 0]
    /\ failing' = [failing EXCEPT ![q].pc = "marked"]
    /\ UNCHANGED << diskVars, loaderVars, gpu_status, stats, cfgVars, toolVars, readAge, metricVars, lockVars, limVars, sse, reqVars >>

\* A second passes.
Second ==
    /\ \E id \in Ids : markAge[id] < CooldownTTL
    /\ Elapse(1)
    /\ UNCHANGED << diskVars, PROVIDERS, ld, gpu_status, stats, cfgVars, toolVars, metricVars, lockVars, failing, limVars, sse, reqVars >>

\* The registry was loaded more than a minute ago.
InitCooldown ==
    /\ state_file = "DOC_DEFAULT"
    /\ checksum_file = HexDigest("DOC_DEFAULT")
    /\ PROVIDERS = Enrich(DEFAULT_PROVIDERS)
    /\ loadAge = ReloadInterval
    /\ ld = IdleLoad
    /\ gpu_status = None
    /\ cooldown = NoCooldown
    /\ stats = NoStats
    /\ NoAges
    /\ NoMetrics
    /\ NoLock
    /\ NoTools
    /\ current_mode = "AUTO"
    /\ manual_target_id = None
    /\ req = NewReq
    /\ served = 0
    /\ NoLimiter

NextCooldown ==
    \/ \E q \in Requesters, id \in CooledIds : QuotaError(q, id)
    \/ \E q \in Requesters : MarkFailure(q)
    \/ Second

SpecCooldown == InitCooldown /\ [][NextCooldown]_vars

(***************************************************************************)
(* Claims                                                                  *)
(***************************************************************************)
\* The pair an attempt of load_state_safe has read matches: the SHA-256 hex
\* digest of the state bytes is the checksum text without its white space.
PairMatches == Text(Sha256(ld.content)) = [ld.raw EXCEPT !.ws = FALSE]
\* Lines 68-69 ran for the document the attempt read.
Replaced == PROVIDERS' = Enrich(ApiProviders(ld.content)) /\ loadAge' = 0

\* The step in which the attempt validates the pair it read (lines 51-75).
Validates == ld.pc = "validate" /\ ld'.pc # "validate"

\* C1, as stated: the registry changes only in an attempt that read a
\* matching pair; an attempt that read a non-matching pair leaves it alone;
\* an attempt that read a matching pair replaces it.
CexC1 ==
    [][/\ PROVIDERS' # PROVIDERS => Validates /\ PairMatches
       /\ Validates /\ ~PairMatches => PROVIDERS' = PROVIDERS
       /\ Validates /\ PairMatches => Replaced]_vars

\* C1, amended: the registry changes only in an attempt that read a matching
\* pair, and then to the enriched api_providers of the document read; an
\* attempt that read a non-matching pair leaves it alone; an attempt that
\* read a matching pair replaces it when the document is well formed, and
\* leaves it alone when the document does not parse, has no api_providers
\* or has an entry that cannot be enriched.
ThmC1 ==
    [][/\ PROVIDERS' # PROVIDERS => Validates /\ PairMatches /\ Replaced
       /\ Validates /\ ~PairMatches => PROVIDERS' = PROVIDERS
       /\ Validates /\ PairMatches /\ ld.content \in GoodDocs => Replaced
       /\ Validates /\ PairMatches /\ ld.content \notin GoodDocs
             => PROVIDERS' = PROVIDERS]_vars

\* A load has just installed the smaller document's providers.
WitC1 ==
    /\ ld.pc = "idle"
    /\ loadAge = 0
    /\ PROVIDERS = Enrich(ApiProviders("DOC_SMALL"))

\* The ranked order of the request, from its target and its sane list.
Ranked == << req.target_id >> \o SelectSeq(req.sane_list, LAMBDA x : x # req.target_id)
HasDescriptor(id) == \E i \in 1..Len(PROVIDERS) : PROVIDERS[i].id = id
TriedId(i) == req.tried[i][1]
UpstreamOf(i) == req.tried[i][2]
EndOf(i) == req.tried[i][3]

\* C2: the attempts of a request follow the ranked order [preferred] + the
\* other sane ids in sane-list order: every attempted id is ranked, none is
\* attempted twice, every id ranked before an attempted one either has no
\* descriptor or was attempted earlier and its attempt ended in an exception
\* the loop caught; and a request that ends in 503 has attempted every
\* ranked id that has a descriptor.
ThmC2 ==
    /\ \A i \in 1..Len(req.tried) :
          /\ \E m \in 1..Len(Ranked) : Ranked[m] = TriedId(i)
          /\ \A j \in 1..Len(req.tried) : i # j => TriedId(i) # TriedId(j)
          /\ \A m \in 1..Len(Ranked), k \in 1..Len(Ranked) :
                Ranked[m] = TriedId(i) /\ k < m =>
                   \/ ~HasDescriptor(Ranked[k])
                   \/ \E j \in 1..(i - 1) :
                         TriedId(j) = Ranked[k] /\ EndOf(j) = "caught"
    /\ req.status = 503 =>
          \A k \in 1..Len(Ranked) :
             HasDescriptor(Ranked[k]) =>
                \E i \in 1..Len(req.tried) : TriedId(i) = Ranked[k]

\* A request answered by its third ranked provider, whose preferred
\* provider is not the head of the sane list.
WitC2 ==
    /\ Len(req.tried) = 3
    /\ req.status = 200
    /\ TriedId(1) = req.target_id
    /\ req.sane_list[1] # req.target_id
    /\ TriedId(2) = req.sane_list[1]

\* C3: when the upstream call of a provider succeeds, that provider's
\* response is the one returned and no later provider is attempted.
CexC3 ==
    \A i \in 1..Len(req.tried) :
       UpstreamOf(i) = "ok" => req.responder = TriedId(i) /\ i = Len(req.tried)

\* The ids whose upstream call failed with error text out in this request.
FailedWith(out) ==
    {TriedId(i) : i \in {k \in 1..Len(req.tried) : UpstreamOf(k) = out}}
       \cup (IF req.stream_out = out THEN {req.responder} ELSE {})

\* A KVS call of the waterfall raised: r.setex (line 136), or r.incr, whose
\* exception line 262 catches after an upstream call that succeeded or was
\* deferred.
WaterfallKvsRaised ==
    \/ req.err = 136
    \/ \E i \in 1..Len(req.tried) :
          UpstreamOf(i) \in {"ok", "deferred"} /\ EndOf(i) = "caught"

\* C4, for the requests in which no KVS call raises: every provider whose
\* upstream call failed on quota had its cooldown key set by the request,
\* and the request went on to the next ranked provider.
CexC4 ==
    ~WaterfallKvsRaised =>
       \A id \in FailedWith("quota") :
          /\ id \in req.cooled
          /\ req.responder # id

\* The upstream calls the request made, and whether it has ended.
UpstreamCalls ==
    ({UpstreamOf(i) : i \in 1..Len(req.tried)} \ {"deferred"})
       \cup (IF req.stream_out # None THEN {req.stream_out} ELSE {})
Ended == req.pc = "done"

\* C5: a provider whose upstream call failed otherwise than on quota gets no
\* cooldown key from the request; and a request whose upstream calls all
\* failed with a generic error ends in 503 with no cooldown key set.
CexC5 ==
    /\ \A id \in (FailedWith("generic") \ FailedWith("quota")) : id \notin req.cooled
    /\ Ended /\ UpstreamCalls = {"generic"} => req.status = 503 /\ req.cooled = {}

\* C6: in AUTO mode the target is, for CODING, ollama if the GPU is ready and
\* ollama is sane, else qwen_cloud if sane, else the head of the sane list;
\* for any other category, groq if sane, else gemini-flash if sane, else the
\* head of the sane list.
ThmC6 ==
    req.pc = "waterfall" /\ current_mode = "AUTO" =>
       LET sane(id) == \E i \in 1..Len(req.sane_list) : req.sane_list[i] = id
           first == req.sane_list[1]
       IN req.target_id =
            IF req.cat = "CODING"
               THEN (IF req.gpu_on /\ sane("ollama") THEN "ollama"
                     ELSE IF sane("qwen_cloud") THEN "qwen_cloud" ELSE first)
               ELSE (IF sane("groq") THEN "groq"
                     ELSE IF sane("gemini-flash") THEN "gemini-flash" ELSE first)

\* CODING with the GPU not ready and ollama in the list: qwen_cloud.
WitC6 ==
    /\ req.pc = "waterfall"
    /\ req.cat = "CODING"
    /\ ~req.gpu_on
    /\ \E i \in 1..Len(req.sane_list) : req.sane_list[i] = "ollama"
    /\ req.target_id = "qwen_cloud"

\* C7: the list get_sane_providers returns holds exactly the registry's ids
\* without a live cooldown key at the call, less ollama when the GPU is not
\* ready, once each and in registry order.
ThmC7 ==
    [][req.pc = "sane" /\ req'.pc = "route" =>
         LET result == req'.sane_list
             pos(id) == CHOOSE i \in 1..Len(PROVIDERS) : PROVIDERS[i].id = id
         IN /\ {result[i] : i \in 1..Len(result)} =
                  {id \in Ids : /\ HasDescriptor(id)
                                /\ cooldown[id] = 0
                                /\ req.gpu_on \/ id # "ollama"}
            /\ \A i, j \in 1..Len(result) :
                  i < j => pos(result[i]) < pos(result[j])]_vars

\* A sane list computed while a provider is cooling down.
WitC7 ==
    /\ req.pc = "route"
    /\ req.sane_list # << >>
    /\ \E id \in Ids : cooldown[id] > 0 /\ HasDescriptor(id)

OllamaContacted ==
    \/ \E i \in 1..Len(req.tried) : TriedId(i) = "ollama" /\ UpstreamOf(i) # "deferred"
    \/ req.stream_out # None /\ req.responder = "ollama"

CexC9 ==
    Ended /\ req.err \notin {198, 206, 209, 130, 171, 177, 136} =>
       req.status \in {200, 429, 503}

\* C10, for the requests with a non-empty list of messages that all have a
\* role, whose judge output is an object and whose KVS calls succeed: with an
\* empty registry a request that passed the limiter is answered 503.
CexC10 ==
    (/\ Ended
     /\ PROVIDERS = << >>
     /\ req.status # 429
     /\ req.err \notin {198, 206, 209, 130, 220, 136})
       => req.status = 503

\* A step of the running load_state_safe() call.
LoaderStep == ld' # ld

\* C11: one load_state_safe() call reads the checksum/state pair at most
\* twice: it never retries after the first retry.
CexC11 == ld.depth <= 1

\* C12, as stated: the second read of a call, when it sees a matching pair,
\* installs the registry.
CexC12 ==
    [][Validates /\ ld.depth = 1 /\ PairMatches => Replaced]_vars

\* C12, amended: after a first read that does not match, the call sleeps and
\* enters the function again with the registry untouched; the second entry
\* is never debounced, so the pair is read again; and a second read that
\* sees a matching pair of a well-formed document installs its registry.
ThmC12 ==
    [][/\ Validates /\ ~PairMatches /\ ld.depth = 0
             => ld'.pc = "entry" /\ ld'.depth = 1 /\ PROVIDERS' = PROVIDERS
       /\ LoaderStep /\ ld.pc = "entry" /\ ld.depth = 1 => ld'.pc = "read_ck"
       /\ Validates /\ ld.depth = 1 /\ PairMatches /\ ld.content \in GoodDocs
             => Replaced]_vars

\* The second read of a call has seen a matching pair of a well-formed
\* document that is not the registry in use.
WitC12 ==
    /\ ld.pc = "validate"
    /\ ld.depth = 1
    /\ PairMatches
    /\ ld.content \in GoodDocs
    /\ PROVIDERS # << >>
    /\ PROVIDERS # Enrich(ApiProviders(ld.content))

\* C13: when the checksum file or the state file cannot be read, or the
\* document that passed the digest test is not JSON, the call returns to its
\* caller with the registry and the time of the last load as they were; a
\* document that is not JSON never changes the registry.
ThmC13 ==
    [][/\ (/\ LoaderStep
            /\ \/ ld.pc = "read_ck" /\ checksum_file = NoChecksumFile
               \/ ld.pc = "read_st" /\ state_file = ENOENT
               \/ ld.pc = "validate" /\ PairMatches /\ ~JsonLoads(ld.content))
             => ld' = IdleLoad /\ PROVIDERS' = PROVIDERS /\ loadAge' = loadAge
       /\ LoaderStep /\ ld.pc = "validate" /\ ~JsonLoads(ld.content)
             => PROVIDERS' = PROVIDERS]_vars

\* A call holding a registry has read bytes that are not JSON, with their
\* digest in the checksum file.
WitC13 ==
    /\ ld.pc = "validate"
    /\ PairMatches
    /\ ~JsonLoads(ld.content)
    /\ PROVIDERS # << >>

\* A limiter call is answered in this step: one of another client, or the
\* one of this process's request; and what it returned.
ScriptStep ==
    \/ \E c \in Callers : callers[c] = "pending" /\ callers'[c] # "pending"
    \/ req.pc = "limit" /\ req'.pc # "limit"
Returned(value) ==
    /\ \A c \in Callers :
          callers[c] = "pending" /\ callers'[c] # "pending" =>
             callers'[c] = IF value THEN "allowed" ELSE "denied"
    /\ req.pc = "limit" /\ req'.pc # "limit" =>
          IF value THEN req'.pc = "extract" ELSE req'.status = 429

ThmC17 ==
    [][/\ req'.status = 429 =>
             /\ req'.pc = "done"
             /\ req'.cat = None
             /\ req'.tried = << >>
             /\ req'.cooled = {}
             /\ req'.stream_out = None
             /\ req'.directives = << >>
       /\ req'.status = 429 =>
             /\ stats' = stats
             /\ \A id \in Ids : cooldown'[id] <= cooldown[id]
             /\ ld' = ld /\ PROVIDERS' = PROVIDERS]_vars

\* A second request is rejected after a first one was answered by a
\* provider.
WitC17 ==
    /\ req.status = 429
    /\ served = 2
    /\ \E id \in Ids : stats[id] > 0

\* C18: no request is failed by what the judge returns: the handler never
\* ends on the exception of line 206.
CexC18 == req.err # 206

\* C19: when a provider is called, lang_cmd has been appended exactly once,
\* and to the last user message.
CexC19 ==
    req.tried # << >> =>
       req.directives = << LastUser(Messages(req.body)) >>

\* C20: the frames sent are the upstream chunks in upstream order, each with
\* the requested model, then one [DONE] frame and nothing more; a response
\* that was closed has sent them all.
ThmC20 ==
    LET n == Len(sse.response)
    IN /\ Len(sse.frames) <= n + 1
       /\ \A i \in 1..Len(sse.frames) :
             IF i <= n
                THEN /\ sse.frames[i].data = "chunk"
                     /\ sse.frames[i].content = sse.response[i].text
                     /\ sse.frames[i].model = sse.req_model
                ELSE sse.frames[i] = Done
       /\ sse.closed => Len(sse.frames) = n + 1

\* Three chunks with different texts were streamed and the response closed.
WitC20 ==
    /\ sse.closed
    /\ Len(sse.response) = 3
    /\ sse.response[1].text # sse.response[2].text
    /\ Len(sse.frames) = 4

\* The request reads the GPU flag (line 209); it lists the sane providers
\* (line 211).
ReadsGpu == req.pc = "gpu" /\ req'.pc = "sane"
ListsSane == req.pc = "sane" /\ req'.pc = "route"

\* C21, as stated: gpu_ready is true exactly when the key gpu_status holds
\* "GREEN"; with any other value, or without the key, the local-GPU
\* provider is left out of the sane list.
CexC21 ==
    [][/\ ReadsGpu => (req'.gpu_on <=> gpu_status = "GREEN")
       /\ ListsSane /\ ~req.gpu_on => ~Contains(req'.sane_list, "ollama")]_vars

\* C21, amended: gpu_ready is true exactly when the key gpu_status holds
\* "VERDE"; with any other value, or without the key, the local-GPU
\* provider is left out of the sane list.
ThmC21 ==
    [][/\ ReadsGpu => (req'.gpu_on <=> gpu_status = "VERDE")
       /\ ListsSane /\ ~req.gpu_on => ~Contains(req'.sane_list, "ollama")]_vars

\* The flag was read as green and ollama is in the sane list.
WitC21 ==
    /\ req.pc = "route"
    /\ req.gpu_on
    /\ Contains(req.sane_list, "ollama")

\* C22: in MANUAL mode the attempts are the manual target followed by the
\* sane providers other than the target, in sane-list order, and the first
\* provider attempted is the target (when the registry knows it), whatever
\* its cooldown, the GPU flag and the category.
ThmC22 ==
    current_mode = "MANUAL" /\ req.pc \in {"waterfall", "streaming", "done"}
                            /\ req.attempts # << >> =>
       /\ req.target_id = manual_target_id
       /\ req.attempts = << manual_target_id >> \o
                             SelectSeq(req.sane_list, LAMBDA x : x # manual_target_id)
       /\ req.tried # << >> /\ HasDescriptor(manual_target_id) =>
              TriedId(1) = manual_target_id

\* The manual target was attempted first although its cooldown key kept it
\* out of the sane list and the category was CODING, and a fallback was
\* attempted after it.
WitC22 ==
    /\ current_mode = "MANUAL"
    /\ Len(req.tried) >= 2
    /\ TriedId(1) = manual_target_id
    /\ req.gpu_on
    /\ ~Contains(req.sane_list, manual_target_id)
    /\ req.cat = "CODING"

\* C23: at most one user of acquire_lock() is inside its with-block, and it
\* holds the lock; nobody else holds it, so a user that arrives meanwhile
\* stays before its with-block until the holder has unlocked.
ThmC23 ==
    /\ Cardinality({u \in LockUsers : lock_pc[u] = "inside"}) <= 1
    /\ Cardinality(lock_holders) <= 1
    /\ \A u \in LockUsers : lock_pc[u] \in {"inside", "releasing"} => u \in lock_holders

\* One user is inside its with-block while another waits in flock and a
\* third has left its own block.
WitC23 ==
    \E u, v, w \in LockUsers :
       /\ lock_pc[u] = "inside"
       /\ lock_pc[v] = "opened"
       /\ lock_pc[w] = "unlocked"

\* The middleware of a scrape sets the gauge; the scrape is answered.
ScrapeUpdates == scrape.pc = "middleware" /\ scrape'.pc # "middleware"
ScrapeAnswers == scrape.pc = "call_next" /\ scrape'.pc # "call_next"

\* C24: the middleware of GET /metrics leaves the gauge at 1 if the flag it
\* read is green and at 0 otherwise; when the read fails the gauge keeps
\* its value; either way the request goes on to the endpoint and is
\* answered 200.
ThmC24 ==
    [][/\ ScrapeUpdates =>
             /\ scrape'.pc = "call_next"
             /\ gpu_gauge' = IF ~scrape'.kvs_ok THEN gpu_gauge
                              ELSE IF gpu_status = "VERDE" THEN 1 ELSE 0
       /\ ScrapeAnswers => scrape'.pc = "answered" /\ scrape'.status = 200
                                /\ gpu_gauge' = gpu_gauge]_vars

\* A scrape whose KVS read failed was answered, and the gauge is still the 1
\* it was before.
WitC24 ==
    /\ scrape.pc = "answered"
    /\ ~scrape.kvs_ok
    /\ scrape.before = 1
    /\ gpu_gauge = 1

\* A load_state_safe() call reads state.json (lines 47-48).
ReadsState == ld.pc = "read_st" /\ ld'.pc = "validate"

\* C25: a read of state.json that is not the retry after a mismatch comes at
\* least 60 s after the previous read of the file, whether the previous
\* load succeeded or failed and whether the registry is empty or not.
CexC25 == [][ReadsState /\ ld.depth = 0 => readAge >= ReloadInterval]_vars

\* C26: a request does not fail on the KVS raising while the cooldown keys
\* are read at line 130: it goes on to routing.
CexC26 == req.err # 130

\* C27: a counter stats:<id>:requests never decreases; when it changes it
\* grows by one, for the provider whose response the request returns with
\* status 200; and the upstream call of that provider succeeded.
CexC27 ==
    [][/\ \A id \in Ids :
             /\ stats'[id] >= stats[id]
             /\ stats'[id] # stats[id] =>
                    /\ stats'[id] = stats[id] + 1
                    /\ req'.responder = id
                    /\ req'.status = 200
       /\ req'.pc = "done" /\ req'.responder # None =>
             req'.stream_out \notin {"quota", "generic"}]_vars

\* The parallel requests that have called set_cooldown(id).
Marked(id) == {q \in Requesters : failing[q] = [pc |-> "marked", id |-> id]}

\* C28: once 60 s have passed since the last set_cooldown(id), the key
\* cooldown:<id> is gone and get_sane_providers lists id again, ollama when
\* gpu_ready.
ThmC28 ==
    \A id \in Ids :
       markAge[id] >= CooldownTTL =>
          /\ cooldown[id] = 0
          /\ Contains(get_sane_providers(PROVIDERS, cooldown, TRUE), id)
          /\ id # "ollama" => Contains(get_sane_providers(PROVIDERS, cooldown, FALSE), id)

\* groq was put in cooldown 60 s ago and is sane again, while ollama, put
\* in cooldown later, is not.
WitC28 ==
    /\ Marked("groq") # {}
    /\ Marked("ollama") # {}
    /\ markAge["groq"] = CooldownTTL
    /\ cooldown["groq"] = 0
    /\ cooldown["ollama"] > 0
    /\ Contains(get_sane_providers(PROVIDERS, cooldown, TRUE), "groq")
    /\ ~Contains(get_sane_providers(PROVIDERS, cooldown, TRUE), "ollama")

\* C29: whatever the number and the order of the set_cooldown(id) calls,
\* the key cooldown:<id> has a remaining TTL within 0..60: the 60 s of the
\* last call less the time passed since.
ThmC29 ==
    \A id \in Ids :
       /\ cooldown[id] \in 0..CooldownTTL
       /\ Marked(id) # {} => cooldown[id] = CooldownTTL - markAge[id]

\* Two requests have called set_cooldown for groq; the key has 30 s left.
WitC29 ==
    /\ Marked("groq") = Requesters
    /\ cooldown["groq"] = 30

\* The request has passed line 202 and is at or before the end of its
\* waterfall.
InFlight == req.pc \in {"gpu", "sane", "route", "waterfall"}

Writing == {s \in Scanners : scans[s] \in {"wrote_temp", "wrote_checksum"}}

\* C32: at most one scan at a time is inside the write sequence (temp
\* file, checksum file, rename).
CexC32 == Cardinality(Writing) <= 1

\* C33: when no scan is inside its write sequence or about to enter it,
\* the checksum file holds the SHA-256 of state.json: load_state_safe
\* would accept the pair.
CexC33 ==
    (\A s \in Scanners : scans[s] \in {"idle", "done", "failed"}) =>
       ChecksumMatches(state_file, ReadExpected(checksum_file))

\* C34: every quota key that exists has an expiry, from the call of
\* increment_usage that creates it on.
CexC34 == \A day \in Days : quota[day].ttl # NoExpiry


\* C35: for every category, every gpu_ready and every non-empty sane list,
\* decide_routing returns a member of the list; so the provider an AUTO
\* request prefers is one of its sane list, and no member of that list had a
\* live cooldown key when get_sane_providers computed it.
ThmC35 ==
    [][/\ req.pc = "sane" /\ req'.pc = "route" =>
            /\ \A category \in Categories, gpu_ready \in BOOLEAN,
                  sane_list \in (SaneLists \cup {req'.sane_list}) \ {<< >>} :
                  Contains(sane_list,
                           decide_routing(category, gpu_ready, sane_list))
            /\ \A category \in Categories, gpu_ready \in BOOLEAN :
                  req'.sane_list # << >> =>
                     cooldown[decide_routing(category, gpu_ready,
                                             req'.sane_list)] = 0
       /\ req.pc = "route" /\ req'.pc = "waterfall" /\ current_mode = "AUTO" =>
            /\ req'.target_id =
                  decide_routing(req.cat, req.gpu_on, req.sane_list)
            /\ Contains(req.sane_list, req'.target_id)]_vars

\* An AUTO request routed while groq is cooling down: gemini-flash is
\* preferred.
WitC35 ==
    /\ current_mode = "AUTO"
    /\ req.pc = "waterfall"
    /\ req.idx = 1
    /\ req.cat # "CODING"
    /\ cooldown["groq"] > 0
    /\ HasDescriptor("groq")
    /\ req.target_id = "gemini-flash"


\* An API call on an existing resource, or one that makes a resource, for a
\* critical id.
Touches(c) ==
    \/ c.op # "clone" /\ Decimal(c.id) \in CRITICAL_VMS
    \/ c.op = "clone" /\ Decimal(c.newid) \in CRITICAL_VMS
ClonesFrom(c) == c.op = "clone" /\ Decimal(c.id) \in CRITICAL_VMS
\* The last call named a critical id as the resource to make or destroy.
ForCritical == pve.fn # None /\ IsNumeral(pve.arg.text) /\ IsCritical(pve.arg)

\* C36, as stated: no clone, create, config, start, stop or delete call is
\* ever issued to the API for an id in CRITICAL_VMS, and a call for such an
\* id returns False without any API call.
CexC36 ==
    /\ \A c \in pve.issued : ~Touches(c) /\ ~ClonesFrom(c)
    /\ ForCritical => pve.ret = "False" /\ pve.calls = << >>

\* C36, amended: no create, config, start, stop or delete call is ever issued
\* to the API for an id in CRITICAL_VMS and no clone call names one as its
\* newid, and a call for such an id returns False without any API call; the
\* id a clone reads from is not looked up in CRITICAL_VMS.
ThmC36 ==
    /\ \A c \in pve.issued : ~Touches(c)
    /\ ForCritical => pve.ret = "False" /\ pve.calls = << >>

\* destroy_vm("100") without dry-run refused, after calls for another id
\* reached the API.
WitC36 ==
    /\ pve.fn = "destroy_vm"
    /\ pve.arg = [kind |-> "str", text |-> "100"]
    /\ ~pve.dry_run
    /\ pve.ret = "False"
    /\ \E c \in pve.issued : c.op = "delete"
    /\ \E c \in pve.issued : c.op = "lxc_create"

====
